---- MODULE Spec2Model ----
(***************************************************************************)
(* Model of src/pleroma/web_socket.rs: the streaming client of the Pleroma *)
(* backend.  WebSocket::listen builds the URL and calls connect, connect   *)
(* runs do_connect in a loop, do_connect performs the handshake and the    *)
(* read loop, and parse turns one frame into a Message for the callback.   *)
(***************************************************************************)
EXTENDS Integers, Sequences, FiniteSets, TLC

VARIABLES
    self,       \* the WebSocket struct: url, stream, params, access_token
    pc,         \* position of the thread that called listen
    url,        \* the url argument of connect / do_connect
    attempts,   \* number of do_connect calls made by connect
    sleeps,     \* number of thread::sleep calls made by connect
    sleptMs,    \* total milliseconds slept by connect
    outcome,    \* what do_connect returned, while connect matches on it
    waited,     \* seconds the pending read has been waiting
    idle,       \* seconds since the session last received a frame (saturating)
    received,   \* frames yielded by socket.next() as Some(Ok(msg)), in order
    sunk,       \* arguments of the callback invocations, in order
    msg,        \* the frame of the last completed read
    res,        \* what parse returned for msg (NoResult if msg was not parsed)
    pongs,      \* number of socket.send(Pong) attempts
    closes,     \* number of socket.close(None) attempts
    lastSend,   \* result of the send made for msg: "none", "ok" or "err"
    active,     \* number of do_connect calls that have not returned
    read        \* what the last await of do_connect yielded

vars == <<self, pc, url, attempts, sleeps, sleptMs, outcome, waited, idle,
          received, sunk, msg, res, pongs, closes, lastSend, active, read>>

----------------------------------------------------------------------------
(* Bounds of the model *)

MaxAttempts == 3
MaxFrames == 2

(* Program constants *)

RECONNECT_INTERVAL == 5000
READ_MESSAGE_TIMEOUT_SECONDS == 60
Normal == 1000

\* granularity of the model's clock
TickSeconds == READ_MESSAGE_TIMEOUT_SECONDS \div 2

----------------------------------------------------------------------------
(* Strings that are concatenated are sequences of pieces. *)

RECURSIVE join(_, _)
join(parts, sep) ==
    IF Len(parts) = 0 THEN <<>>
    ELSE IF Len(parts) = 1 THEN Head(parts)
    ELSE Head(parts) \o sep \o join(Tail(parts), sep)

None == [some |-> FALSE, v |-> <<>>]
Some(x) == [some |-> TRUE, v |-> x]

\* variant of listen_parameter: the extra parameters are pushed before the token
listen_parameter_token_last(ws) ==
    LET p0 == << <<"stream=">> \o ws.stream >>
        p1 == IF ws.params.some THEN p0 \o ws.params.v ELSE p0
    IN  IF ws.access_token.some
        THEN Append(p1, <<"access_token=">> \o ws.access_token.v)
        ELSE p1

\* the parameter vector listen builds, then base + "?" + join("&")
listen_parameter(ws) ==
    LET p0 == << <<"stream=">> \o ws.stream >>
        p1 == IF ws.access_token.some
              THEN Append(p0, <<"access_token=">> \o ws.access_token.v)
              ELSE p0
    IN  IF ws.params.some THEN p1 \o ws.params.v ELSE p1

listen_url(ws) == ws.url \o <<"?">> \o join(listen_parameter(ws), <<"&">>)

WebSocket_new(u, s, p, t) ==
    [url |-> u, stream |-> s, params |-> p, access_token |-> t]

Endpoints ==
    { WebSocket_new(<<"wss://x/api">>, <<"user">>, None, None),
      WebSocket_new(<<"wss://x/api">>, <<"user">>,
                    Some(<< <<"foo=bar">> >>), Some(<<"tok">>)) }

----------------------------------------------------------------------------
(* Frames (tungstenite Message) *)

\* JSON text of a text frame, by what serde_json makes of it
Absent == [present |-> FALSE, isString |-> FALSE, s |-> ""]
NonString == [present |-> TRUE, isString |-> FALSE, s |-> ""]
Str(s) == [present |-> TRUE, isString |-> TRUE, s |-> s]

Json(shape, ev, pl) == [shape |-> shape, event |-> ev, payload |-> pl]
NoJson == Json("none", Absent, Absent)

NoCode == [some |-> FALSE, code |-> 0]
Code(c) == [some |-> TRUE, code |-> c]

Ping(bytes) == [type |-> "ping", bytes |-> bytes, json |-> NoJson, close |-> NoCode]
Pong(bytes) == [type |-> "pong", bytes |-> bytes, json |-> NoJson, close |-> NoCode]
Binary(bytes) == [type |-> "binary", bytes |-> bytes, json |-> NoJson, close |-> NoCode]
Text(j) == [type |-> "text", bytes |-> <<>>, json |-> j, close |-> NoCode]
Close(c) == [type |-> "close", bytes |-> <<>>, json |-> NoJson, close |-> c]
NoMessage == [type |-> "none", bytes |-> <<>>, json |-> NoJson, close |-> NoCode]

is_ping(m) == m.type = "ping"
is_pong(m) == m.type = "pong"
is_text(m) == m.type = "text"
is_close(m) == m.type = "close"

StatusJson == "{\"id\":\"1\",\"content\":\"hi\"}"
EntityJson == "{\"id\":\"1\",\"content\":\"hi\",\"type\":\"mention\",\"unread\":true}"

Envelope(t, p) == Text(Json("object", Str(t), Str(p)))

TextFrames ==
    { Envelope("delete", p) : p \in {"123", "{oops", StatusJson} }
    \cup { Envelope("update", p) : p \in {StatusJson, EntityJson, "{oops"} }
    \cup { Envelope("notification", p) : p \in {StatusJson, EntityJson} }
    \cup { Envelope("conversation", p) : p \in {StatusJson, EntityJson} }
    \cup { Envelope("bogus", "x"), Envelope("status.update", StatusJson) }
    \cup { Text(Json("malformed", Absent, Absent)),
           Text(Json("object", Absent, Str("123"))),
           Text(Json("object", NonString, Str("123"))),
           Text(Json("object", Str("delete"), Absent)),
           Text(Json("object", Str("update"), NonString)),
           Text(Json("array", Str("delete"), Str("123"))) }

ControlFrames ==
    { Ping(<<>>), Ping(<<1, 2>>), Pong(<<7>>) }

CloseFrames ==
    { Close(NoCode), Close(Code(Normal)), Close(Code(1011)) }

Frames == TextFrames \cup ControlFrames \cup CloseFrames \cup { Binary(<<0>>) }

----------------------------------------------------------------------------
(* parse *)

\* entity decoding (entities::Status and friends, serde_json::from_str)
StatusPayloads == {StatusJson, EntityJson}
NotificationPayloads == {EntityJson}
ConversationPayloads == {EntityJson}

Ok(kind, data) == [ok |-> TRUE, kind |-> kind, data |-> data, names |-> ""]
Err(kind, names) == [ok |-> FALSE, kind |-> kind, data |-> "", names |-> names]
NoResult == [ok |-> FALSE, kind |-> "none", data |-> "", names |-> ""]

\* serde_json::from_str::<RawMessage>: a map with both fields strings, or a
\* sequence of two strings
from_str_RawMessage(j) ==
    /\ j.shape \in {"object", "array"}
    /\ j.event.present /\ j.event.isString
    /\ j.payload.present /\ j.payload.isString

from_str_entity(accepted, kind, payload) ==
    IF payload \in accepted THEN Ok(kind, payload) ELSE Err("JsonError", "")

\* variants of parse_event: the delete payload is decoded as JSON; the error
\* for an unknown event does not carry the event
parse_event_delete_json(event, payload) ==
    CASE event = "update" ->
            from_str_entity(StatusPayloads, "Update", payload)
      [] event = "notification" ->
            from_str_entity(NotificationPayloads, "Notification", payload)
      [] event = "conversation" ->
            from_str_entity(ConversationPayloads, "Conversation", payload)
      [] event = "delete" ->
            from_str_entity({"123", StatusJson, EntityJson}, "Delete", payload)
      [] OTHER -> Err("ParseError", event)

parse_event_unnamed(event, payload) ==
    CASE event = "update" ->
            from_str_entity(StatusPayloads, "Update", payload)
      [] event = "notification" ->
            from_str_entity(NotificationPayloads, "Notification", payload)
      [] event = "conversation" ->
            from_str_entity(ConversationPayloads, "Conversation", payload)
      [] event = "delete" -> Ok("Delete", payload)
      [] OTHER -> Err("ParseError", "")

\* variant of parse_event: the conversation arm wraps its entity as Notification
parse_event_conversation_arm_copied(event, payload) ==
    CASE event = "update" ->
            from_str_entity(StatusPayloads, "Update", payload)
      [] event = "notification" ->
            from_str_entity(NotificationPayloads, "Notification", payload)
      [] event = "conversation" ->
            from_str_entity(ConversationPayloads, "Notification", payload)
      [] event = "delete" -> Ok("Delete", payload)
      [] OTHER -> Err("ParseError", event)

\* the match on mes.event
parse_event(event, payload) ==
    CASE event = "update" ->
            from_str_entity(StatusPayloads, "Update", payload)
      [] event = "notification" ->
            from_str_entity(NotificationPayloads, "Notification", payload)
      [] event = "conversation" ->
            from_str_entity(ConversationPayloads, "Conversation", payload)
      [] event = "delete" -> Ok("Delete", payload)
      [] OTHER -> Err("ParseError", event)

\* the is_text branch
parse_text(json) ==
    IF from_str_RawMessage(json)
    THEN parse_event(json.event.s, json.payload.s)
    ELSE Err("JsonError", "")

\* variant of parse: only a control frame without payload is a heartbeat
parse_inspects_payload(message) ==
    IF (is_ping(message) \/ is_pong(message)) /\ message.bytes = <<>>
    THEN Ok("Heartbeat", "")
    ELSE IF is_text(message) THEN parse_text(message.json)
    ELSE Err("ParseError", "")

parse(message) ==
    IF is_ping(message) \/ is_pong(message) THEN Ok("Heartbeat", "")
    ELSE IF is_text(message) THEN parse_text(message.json)
    ELSE Err("ParseError", "")

\* the Message the callback is given
Message(r) == [kind |-> r.kind, data |-> r.data]

----------------------------------------------------------------------------
(* do_connect and connect *)

InnerKinds ==
    {"ConnectionError", "SocketReadError", "UnusualSocketCloseError", "TimeoutError"}

\* variants of close_result: every coded close is unusual; the code is ignored
close_result_any_code(m) ==
    IF m.close.some THEN "UnusualSocketCloseError" ELSE "Ok"

close_result_ignores_code(m) == "Ok"

\* variant of close_result: a close frame without a code is unusual
close_result_code_required(m) ==
    IF m.close.some /\ m.close.code = Normal
    THEN "Ok"
    ELSE "UnusualSocketCloseError"

\* the result of do_connect for a close frame
close_result(m) ==
    IF m.close.some /\ m.close.code # Normal
    THEN "UnusualSocketCloseError"
    ELSE "Ok"

\* variants of handle: a parse error is propagated out of do_connect; a ping is
\* answered and the loop continues without the callback
handle_parse_fatal(m) ==
    IF is_close(m)
    THEN [returns |-> TRUE, result |-> close_result(m), res |-> NoResult,
          calls |-> <<>>, pong |-> is_ping(m), close |-> TRUE]
    ELSE [returns |-> ~parse(m).ok, result |-> "SocketReadError", res |-> parse(m),
          calls |-> IF parse(m).ok THEN << Message(parse(m)) >> ELSE <<>>,
          pong |-> is_ping(m), close |-> FALSE]

handle_ping_continues(m) ==
    IF is_close(m)
    THEN [returns |-> TRUE, result |-> close_result(m), res |-> NoResult,
          calls |-> <<>>, pong |-> is_ping(m), close |-> TRUE]
    ELSE [returns |-> FALSE, result |-> "none", res |-> parse(m),
          calls |-> IF parse(m).ok /\ ~is_ping(m) THEN << Message(parse(m)) >>
                    ELSE <<>>,
          pong |-> is_ping(m), close |-> FALSE]

\* variant of handle: a close frame is also passed to parse before the return
handle_close_parsed(m) ==
    IF is_close(m)
    THEN [returns |-> TRUE, result |-> close_result(m), res |-> parse(m),
          calls |-> IF parse(m).ok THEN << Message(parse(m)) >> ELSE <<>>,
          pong |-> is_ping(m), close |-> TRUE]
    ELSE [returns |-> FALSE, result |-> "none", res |-> parse(m),
          calls |-> IF parse(m).ok THEN << Message(parse(m)) >> ELSE <<>>,
          pong |-> is_ping(m), close |-> FALSE]

\* one pass of the loop body for a frame m: whether do_connect returns and with
\* what, what parse gave, the callback calls, and the sends attempted
handle(m) ==
    IF is_close(m)
    THEN [returns |-> TRUE, result |-> close_result(m), res |-> NoResult,
          calls |-> <<>>, pong |-> is_ping(m), close |-> TRUE]
    ELSE [returns |-> FALSE, result |-> "none", res |-> parse(m),
          calls |-> IF parse(m).ok THEN << Message(parse(m)) >> ELSE <<>>,
          pong |-> is_ping(m), close |-> FALSE]

\* variant of connect_retries: a timeout is not retried
connect_retries_no_timeout(result) == result \in InnerKinds \ {"TimeoutError"}

\* the arm connect's match takes: TRUE to sleep and call do_connect again
connect_retries(result) == result \in InnerKinds

Min(a, b) == IF a < b THEN a ELSE b

Init ==
    /\ self \in Endpoints
    /\ pc = "new"
    /\ url = <<>>
    /\ attempts = 0
    /\ sleeps = 0
    /\ sleptMs = 0
    /\ outcome = "none"
    /\ waited = 0
    /\ idle = 0
    /\ received = <<>>
    /\ sunk = <<>>
    /\ msg = NoMessage
    /\ res = NoResult
    /\ pongs = 0
    /\ closes = 0
    /\ lastSend = "none"
    /\ active = 0
    /\ read = "none"

\* listen: build the url, call connect, which calls do_connect
Listen ==
    /\ pc = "new"
    /\ url' = listen_url(self)
    /\ pc' = "connecting"
    /\ attempts' = attempts + 1
    /\ active' = active + 1
    /\ read' = "pending"
    /\ UNCHANGED <<self, sleeps, sleptMs, outcome, waited, idle, received, sunk,
                   msg, res, pongs, closes, lastSend>>

\* connect_async succeeded: enter the read loop
HandshakeOk ==
    /\ pc = "connecting"
    /\ pc' = "reading"
    /\ waited' = 0
    /\ idle' = 0
    /\ active' = active
    /\ read' = "connected"
    /\ UNCHANGED <<self, url, attempts, sleeps, sleptMs, outcome, received, sunk,
                   msg, res, pongs, closes, lastSend>>

\* connect_async failed
HandshakeFail ==
    /\ pc = "connecting"
    /\ pc' = "ended"
    /\ outcome' = "ConnectionError"
    /\ active' = active - 1
    /\ read' = "connect_err"
    /\ UNCHANGED <<self, url, attempts, sleeps, sleptMs, waited, idle, received,
                   sunk, msg, res, pongs, closes, lastSend>>

\* time passes while socket.next() is pending
Tick ==
    /\ pc = "reading"
    /\ waited < READ_MESSAGE_TIMEOUT_SECONDS
    /\ waited' = waited + TickSeconds
    /\ idle' = Min(idle + TickSeconds, READ_MESSAGE_TIMEOUT_SECONDS)
    /\ active' = active
    /\ read' = "pending"
    /\ UNCHANGED <<self, pc, url, attempts, sleeps, sleptMs, outcome, received,
                   sunk, msg, res, pongs, closes, lastSend>>

\* variant of ReadTimeout: the elapsed timeout is logged and the loop continues
ReadTimeout_continues ==
    /\ pc = "reading"
    /\ waited >= READ_MESSAGE_TIMEOUT_SECONDS
    /\ waited' = 0
    /\ active' = active
    /\ read' = "elapsed"
    /\ UNCHANGED <<self, pc, url, attempts, sleeps, sleptMs, outcome, idle, received,
                   sunk, msg, res, pongs, closes, lastSend>>

\* variant of ReadTimeout: on a timeout do_connect calls itself again without
\* returning
ReadTimeout_reconnects_inside ==
    /\ pc = "reading"
    /\ waited >= READ_MESSAGE_TIMEOUT_SECONDS
    /\ attempts < MaxAttempts
    /\ pc' = "connecting"
    /\ attempts' = attempts + 1
    /\ active' = active + 1
    /\ read' = "elapsed"
    /\ UNCHANGED <<self, url, sleeps, sleptMs, outcome, waited, idle, received,
                   sunk, msg, res, pongs, closes, lastSend>>

\* tokio::time::timeout elapsed
ReadTimeout ==
    /\ pc = "reading"
    /\ waited >= READ_MESSAGE_TIMEOUT_SECONDS
    /\ pc' = "ended"
    /\ outcome' = "TimeoutError"
    /\ active' = active - 1
    /\ read' = "elapsed"
    /\ UNCHANGED <<self, url, attempts, sleeps, sleptMs, waited, idle, received,
                   sunk, msg, res, pongs, closes, lastSend>>

\* variants of ReadEmpty: None is taken as the end of the stream and do_connect
\* returns Ok; the timeout window is not restarted by an empty read
ReadEmpty_ends_session ==
    /\ pc = "reading"
    /\ waited < READ_MESSAGE_TIMEOUT_SECONDS
    /\ pc' = "ended"
    /\ outcome' = "Ok"
    /\ waited' = 0
    /\ active' = active - 1
    /\ read' = "empty"
    /\ UNCHANGED <<self, url, attempts, sleeps, sleptMs, idle,
                   received, sunk, msg, res, pongs, closes, lastSend>>

ReadEmpty_keeps_window ==
    /\ pc = "reading"
    /\ waited < READ_MESSAGE_TIMEOUT_SECONDS
    /\ active' = active
    /\ read' = "empty"
    /\ UNCHANGED <<self, pc, url, attempts, sleeps, sleptMs, outcome, waited, idle,
                   received, sunk, msg, res, pongs, closes, lastSend>>

\* socket.next() yielded None: warn and continue with the next read
ReadEmpty ==
    /\ pc = "reading"
    /\ waited < READ_MESSAGE_TIMEOUT_SECONDS
    /\ waited' = 0
    /\ active' = active
    /\ read' = "empty"
    /\ UNCHANGED <<self, pc, url, attempts, sleeps, sleptMs, outcome, idle,
                   received, sunk, msg, res, pongs, closes, lastSend>>

\* variant of ReadError: the read error is logged and the loop continues
ReadError_continues ==
    /\ pc = "reading"
    /\ waited < READ_MESSAGE_TIMEOUT_SECONDS
    /\ waited' = 0
    /\ active' = active
    /\ read' = "read_err"
    /\ UNCHANGED <<self, pc, url, attempts, sleeps, sleptMs, outcome, idle,
                   received, sunk, msg, res, pongs, closes, lastSend>>

\* socket.next() yielded Some(Err(e))
ReadError ==
    /\ pc = "reading"
    /\ waited < READ_MESSAGE_TIMEOUT_SECONDS
    /\ pc' = "ended"
    /\ outcome' = "SocketReadError"
    /\ waited' = 0
    /\ idle' = 0
    /\ active' = active - 1
    /\ read' = "read_err"
    /\ UNCHANGED <<self, url, attempts, sleeps, sleptMs, received,
                   sunk, msg, res, pongs, closes, lastSend>>

\* variants of ReadMessage: a failed pong send makes do_connect return an error;
\* a failed close acknowledgement makes do_connect return an error
ReadMessage_pong_failure_fatal ==
    /\ pc = "reading"
    /\ waited < READ_MESSAGE_TIMEOUT_SECONDS
    /\ Len(received) < MaxFrames
    /\ \E m \in Frames : \E sent \in {"ok", "err"} :
        LET h == handle(m)
            failed == h.pong /\ sent = "err"
            returns == h.returns \/ failed
        IN
        /\ msg' = m
        /\ received' = Append(received, m)
        /\ res' = IF failed THEN NoResult ELSE h.res
        /\ sunk' = IF failed THEN sunk ELSE sunk \o h.calls
        /\ pongs' = IF h.pong THEN pongs + 1 ELSE pongs
        /\ closes' = IF h.close THEN closes + 1 ELSE closes
        /\ lastSend' = IF h.pong \/ h.close THEN sent ELSE "none"
        /\ pc' = IF returns THEN "ended" ELSE "reading"
        /\ outcome' = IF failed THEN "SocketReadError"
                      ELSE IF h.returns THEN h.result ELSE outcome
        /\ active' = IF returns THEN active - 1 ELSE active
    /\ read' = "message"
    /\ waited' = 0
    /\ idle' = 0
    /\ UNCHANGED <<self, url, attempts, sleeps, sleptMs>>

ReadMessage_close_failure_fatal ==
    /\ pc = "reading"
    /\ waited < READ_MESSAGE_TIMEOUT_SECONDS
    /\ Len(received) < MaxFrames
    /\ \E m \in Frames : \E sent \in {"ok", "err"} :
        LET h == handle(m)
            failed == h.close /\ sent = "err"
        IN
        /\ msg' = m
        /\ received' = Append(received, m)
        /\ res' = h.res
        /\ sunk' = sunk \o h.calls
        /\ pongs' = IF h.pong THEN pongs + 1 ELSE pongs
        /\ closes' = IF h.close THEN closes + 1 ELSE closes
        /\ lastSend' = IF h.pong \/ h.close THEN sent ELSE "none"
        /\ pc' = IF h.returns THEN "ended" ELSE "reading"
        /\ outcome' = IF failed THEN "SocketReadError"
                      ELSE IF h.returns THEN h.result ELSE outcome
        /\ active' = IF h.returns THEN active - 1 ELSE active
    /\ read' = "message"
    /\ waited' = 0
    /\ idle' = 0
    /\ UNCHANGED <<self, url, attempts, sleeps, sleptMs>>

\* socket.next() yielded Some(Ok(m)): pong reply, close handling, parse, callback
ReadMessage ==
    /\ pc = "reading"
    /\ waited < READ_MESSAGE_TIMEOUT_SECONDS
    /\ Len(received) < MaxFrames
    /\ \E m \in Frames :
        LET h == handle(m) IN
        /\ msg' = m
        /\ received' = Append(received, m)
        /\ res' = h.res
        /\ sunk' = sunk \o h.calls
        /\ pongs' = IF h.pong THEN pongs + 1 ELSE pongs
        /\ closes' = IF h.close THEN closes + 1 ELSE closes
        /\ lastSend' \in IF h.pong \/ h.close THEN {"ok", "err"} ELSE {"none"}
        /\ pc' = IF h.returns THEN "ended" ELSE "reading"
        /\ outcome' = IF h.returns THEN h.result ELSE outcome
        /\ active' = IF h.returns THEN active - 1 ELSE active
    /\ read' = "message"
    /\ waited' = 0
    /\ idle' = 0
    /\ UNCHANGED <<self, url, attempts, sleeps, sleptMs>>

\* connect: do_connect returned Ok(()), listen returns
ConnectReturn ==
    /\ pc = "ended"
    /\ ~connect_retries(outcome)
    /\ pc' = "returned"
    /\ active' = active
    /\ read' = read
    /\ UNCHANGED <<self, url, attempts, sleeps, sleptMs, outcome, waited, idle,
                   received, sunk, msg, res, pongs, closes, lastSend>>

\* variant of ConnectRetry: the delay grows with the number of attempts
ConnectRetry_backoff ==
    /\ pc = "ended"
    /\ connect_retries(outcome)
    /\ attempts < MaxAttempts
    /\ sleeps' = sleeps + 1
    /\ sleptMs' = sleptMs + RECONNECT_INTERVAL * attempts
    /\ attempts' = attempts + 1
    /\ pc' = "connecting"
    /\ outcome' = "none"
    /\ active' = active + 1
    /\ read' = "pending"
    /\ UNCHANGED <<self, url, waited, idle, received, sunk, msg, res,
                   pongs, closes, lastSend>>

\* connect: do_connect returned Err, sleep and call do_connect again
ConnectRetry ==
    /\ pc = "ended"
    /\ connect_retries(outcome)
    /\ attempts < MaxAttempts
    /\ sleeps' = sleeps + 1
    /\ sleptMs' = sleptMs + RECONNECT_INTERVAL
    /\ attempts' = attempts + 1
    /\ pc' = "connecting"
    /\ outcome' = "none"
    /\ active' = active + 1
    /\ read' = "pending"
    /\ UNCHANGED <<self, url, waited, idle, received, sunk, msg, res,
                   pongs, closes, lastSend>>

Next ==
    \/ Listen
    \/ HandshakeOk
    \/ HandshakeFail
    \/ Tick
    \/ ReadTimeout
    \/ ReadEmpty
    \/ ReadError
    \/ ReadMessage
    \/ ConnectReturn
    \/ ConnectRetry

Spec == Init /\ [][Next]_vars

\* the WebSocket values the url construction is exercised on
UrlEndpoints ==
    { WebSocket_new(<<"wss://x/api">>, s, p, t) :
        s \in { <<"user">>, <<"public">> },
        p \in { None, Some(<<>>), Some(<< <<"foo=bar">> >>),
                Some(<< <<"foo=bar">>, <<"list=1">> >>),
                Some(<< <<"list=1">>, <<"foo=bar">> >>) },
        t \in { None, Some(<<"tok">>) } }

InitUrl ==
    /\ self \in UrlEndpoints
    /\ pc = "new"
    /\ url = <<>>
    /\ attempts = 0
    /\ sleeps = 0
    /\ sleptMs = 0
    /\ outcome = "none"
    /\ waited = 0
    /\ idle = 0
    /\ received = <<>>
    /\ sunk = <<>>
    /\ msg = NoMessage
    /\ res = NoResult
    /\ pongs = 0
    /\ closes = 0
    /\ lastSend = "none"
    /\ active = 0
    /\ read = "none"

\* listen on a server that sends no frame: every session fails and is retried
NextUrl ==
    \/ Listen
    \/ HandshakeOk
    \/ HandshakeFail
    \/ Tick
    \/ ReadTimeout
    \/ ReadEmpty
    \/ ReadError
    \/ ConnectRetry

SpecUrl == InitUrl /\ [][NextUrl]_vars

----------------------------------------------------------------------------
(* Properties *)

Last(s) == s[Len(s)]
LastReceivedIs(m) == received # <<>> /\ Last(received) = m
Retryable == {"ConnectionError", "SocketReadError", "UnusualSocketCloseError",
              "TimeoutError"}
CleanStop == "Ok"

\* C1: when the session receives a close frame with status code 1000, do_connect
\* returns Ok (CleanStop), connect can and does return from listen, and from then
\* on no do_connect call is made and the callback is not invoked.
C1_NormalCloseStops ==
    /\ [][ (received' # received /\ msg' = Close(Code(1000)))
           => (pc' = "ended" /\ outcome' = CleanStop /\ sunk' = sunk) ]_vars
    /\ [](LastReceivedIs(Close(Code(1000)))
           => /\ pc \in {"ended", "returned"}
              /\ outcome = CleanStop
              /\ (pc = "ended" => ENABLED ConnectReturn))
    /\ [][ LastReceivedIs(Close(Code(1000)))
           => (pc' = "returned" /\ attempts' = attempts /\ sunk' = sunk
               /\ received' = received) ]_vars

C1_Witness ==
    /\ pc = "returned"
    /\ LastReceivedIs(Close(Code(1000)))
    /\ Len(sunk) = 1

\* C2: a close frame with a status code other than 1000 makes do_connect return
\* UnusualSocketCloseError (Retryable(AbnormalClose)); connect then sleeps 5000 ms
\* and calls do_connect again.
C2_AbnormalCloseRetries ==
    /\ [][ (received' # received /\ is_close(msg') /\ msg'.close.some
              /\ msg'.close.code # 1000)
           => (pc' = "ended" /\ outcome' = "UnusualSocketCloseError") ]_vars
    /\ [][ (pc = "ended" /\ outcome = "UnusualSocketCloseError")
           => (pc' = "connecting" /\ attempts' = attempts + 1
               /\ sleeps' = sleeps + 1 /\ sleptMs' = sleptMs + 5000
               /\ url' = url) ]_vars
    /\ []((pc = "ended" /\ outcome = "UnusualSocketCloseError"
             /\ attempts < MaxAttempts)
           => ENABLED ConnectRetry)

C2_Witness ==
    /\ pc = "reading"
    /\ attempts = 2
    /\ sleptMs = 5000
    /\ LastReceivedIs(Close(Code(1011)))

\* C3 as stated: once 60 seconds have passed in the read loop without a frame
\* being received, the session ends with TimeoutError.
C3_Original ==
    [][ (pc = "reading" /\ idle >= 60)
        => (pc' = "ended" /\ outcome' = "TimeoutError") ]_vars

\* C3 as amended: when one read has waited 60 seconds without completing, the
\* session ends with TimeoutError (Retryable(ReadTimeout)) without a callback
\* call, and connect then calls do_connect again.
C3_ReadTimeoutRetries ==
    /\ [][ (pc = "reading" /\ waited >= 60)
           => (pc' = "ended" /\ outcome' = "TimeoutError"
               /\ received' = received /\ sunk' = sunk) ]_vars
    /\ []((pc = "reading" /\ waited >= 60) => ENABLED ReadTimeout)
    /\ [][ (pc = "ended" /\ outcome = "TimeoutError")
           => (pc' = "connecting" /\ attempts' = attempts + 1) ]_vars
    /\ []((pc = "ended" /\ outcome = "TimeoutError" /\ attempts < MaxAttempts)
           => ENABLED ConnectRetry)

C3_Witness ==
    /\ pc = "connecting"
    /\ attempts = 2
    /\ waited >= 60

\* C4: whenever listen has returned, the last do_connect result is Ok (CleanStop),
\* produced by a close frame without a code or with code 1000, and is none of the
\* four retryable kinds.
C4_ReturnsOnlyOnCleanStop ==
    pc = "returned"
    => /\ outcome = CleanStop
       /\ outcome \notin Retryable
       /\ received # <<>>
       /\ is_close(Last(received))
       /\ (Last(received).close.some => Last(received).close.code = 1000)

C4_Witness ==
    /\ pc = "returned"
    /\ attempts = 3

\* C5: after each of the four retryable results, whatever the number of earlier
\* attempts, connect sleeps 5000 ms exactly once and calls do_connect again with
\* the same url; the total slept is always 5000 ms per retry.
C5_FixedDelayRetry ==
    /\ [][ (pc = "ended" /\ outcome \in Retryable)
           => (pc' = "connecting" /\ attempts' = attempts + 1
               /\ sleeps' = sleeps + 1 /\ sleptMs' = sleptMs + 5000
               /\ url' = url /\ self' = self) ]_vars
    /\ [](sleptMs = 5000 * sleeps /\ (attempts > 0 => sleeps = attempts - 1))
    /\ [](\A k \in Retryable :
            (pc = "ended" /\ outcome = k /\ attempts < MaxAttempts)
            => ENABLED ConnectRetry)

C5_Witness ==
    /\ pc = "connecting"
    /\ attempts = 3
    /\ sleeps = 2
    /\ sleptMs = 10000
    /\ waited >= 60
    /\ LastReceivedIs(Close(Code(1011)))

\* the envelope the wire protocol describes: a JSON object whose event and
\* payload fields are both strings
WellFormedEnvelope(m) ==
    /\ is_text(m)
    /\ m.json.shape = "object"
    /\ m.json.event.present /\ m.json.event.isString
    /\ m.json.payload.present /\ m.json.payload.isString

KnownTags == {"update", "notification", "conversation", "delete"}

\* the kinds of frame that are documented as failing to decode
ListedDecodeFailure(m) ==
    \/ m.type = "binary"
    \/ is_text(m) /\ m.json.shape = "malformed"
    \/ is_text(m) /\ m.json.shape = "object"
         /\ (~m.json.event.present \/ ~m.json.event.isString
             \/ ~m.json.payload.present \/ ~m.json.payload.isString)
    \/ WellFormedEnvelope(m) /\ m.json.event.s \notin KnownTags
    \/ WellFormedEnvelope(m) /\ m.json.event.s = "update"
         /\ m.json.payload.s = "{oops"
    \/ WellFormedEnvelope(m) /\ m.json.event.s \in {"notification", "conversation"}
         /\ m.json.payload.s = StatusJson

ParseFailed(r) == r # NoResult /\ ~r.ok

\* C6: a frame on which parse returns an error causes no callback call and no
\* return from do_connect: the session stays in its read loop, the next read can
\* take a frame, and a following frame that parses is passed to the callback.
\* Every documented kind of undecodable frame does fail to parse.
C6_ParseFailureNotFatal ==
    /\ [][ (received' # received /\ ParseFailed(res'))
           => (sunk' = sunk /\ pc' = "reading" /\ outcome' = outcome
               /\ attempts' = attempts /\ waited' = 0) ]_vars
    /\ [](\A m \in Frames :
            (LastReceivedIs(m) /\ ListedDecodeFailure(m)) => ParseFailed(res))
    /\ []((LastReceivedIs(msg) /\ ParseFailed(res) /\ pc = "reading"
             /\ waited < 60 /\ Len(received) < MaxFrames)
           => ENABLED ReadMessage)
    /\ [][ (ParseFailed(res) /\ pc = "reading" /\ received' # received /\ res'.ok)
           => sunk' = Append(sunk, Message(res')) ]_vars

C6_Witness ==
    /\ attempts = 1
    /\ pc = "reading"
    /\ received = << Envelope("update", "{oops"), Envelope("update", StatusJson) >>
    /\ sunk = << [kind |-> "Update", data |-> StatusJson] >>

RECURSIVE Decoded(_)
Decoded(frames) ==
    IF frames = <<>> THEN <<>>
    ELSE LET r == parse(Head(frames))
         IN  (IF r.ok THEN << [kind |-> r.kind, data |-> r.data] >> ELSE <<>>)
             \o Decoded(Tail(frames))

\* C7: at every moment, over all sessions, the sequence of callback arguments
\* is the sequence of parse results of the received frames that parse, in
\* arrival order: one call per such frame, none dropped, repeated or reordered.
C7_SinkFollowsArrivalOrder ==
    sunk = Decoded(received)

C7_Witness ==
    /\ attempts = 2
    /\ received = << Ping(<<1, 2>>), Envelope("delete", "123") >>
    /\ sunk = << [kind |-> "Heartbeat", data |-> ""],
                 [kind |-> "Delete", data |-> "123"] >>

\* C8: for a ping or pong frame, whatever its payload bytes, parse returns
\* Heartbeat and never an error.
C8_ControlFramesAreHeartbeats ==
    /\ (LastReceivedIs(msg) /\ (is_ping(msg) \/ is_pong(msg)))
       => res = [ok |-> TRUE, kind |-> "Heartbeat", data |-> "", names |-> ""]
    /\ \A b \in {<<>>, <<0>>, <<1, 2>>, <<7>>, <<255, 255, 255>>} :
         /\ parse(Ping(b)).ok /\ parse(Ping(b)).kind = "Heartbeat"
         /\ parse(Pong(b)).ok /\ parse(Pong(b)).kind = "Heartbeat"

C8_Witness ==
    /\ received = << Ping(<<1, 2>>), Pong(<<7>>) >>
    /\ res.ok /\ res.kind = "Heartbeat"
    /\ Len(sunk) = 2

\* C9: for a text frame with a well-formed envelope whose event is "delete",
\* parse returns Delete carrying the payload string unchanged, whether or not
\* the payload is JSON.
C9_DeleteIsVerbatim ==
    (LastReceivedIs(msg) /\ WellFormedEnvelope(msg) /\ msg.json.event.s = "delete")
    => /\ res.ok
       /\ res.kind = "Delete"
       /\ res.data = msg.json.payload.s
       /\ Last(sunk) = [kind |-> "Delete", data |-> msg.json.payload.s]

C9_Witness ==
    /\ received = << Envelope("delete", StatusJson), Envelope("delete", "{oops") >>
    /\ res.ok
    /\ res.data = "{oops"

\* C10: for a text frame with a well-formed envelope whose event is none of
\* update, notification, conversation, delete, parse returns an error that
\* carries the event, whatever the payload, and the callback is not called.
C10_UnknownEventNamed ==
    (LastReceivedIs(msg) /\ WellFormedEnvelope(msg)
       /\ msg.json.event.s \notin KnownTags)
    => /\ ParseFailed(res)
       /\ res.kind = "ParseError"
       /\ res.names = msg.json.event.s
       /\ sunk = Decoded(SubSeq(received, 1, Len(received) - 1))

C10_Witness ==
    /\ received = << Envelope("bogus", "x"), Envelope("status.update", StatusJson) >>
    /\ res.names = "status.update"
    /\ sunk = <<>>

\* the entity decoder consulted for a tag, and the Message variant of the tag
Accepts(tag, payload) ==
    CASE tag = "update" -> payload \in StatusPayloads
      [] tag = "notification" -> payload \in NotificationPayloads
      [] tag = "conversation" -> payload \in ConversationPayloads

VariantOf(tag) ==
    CASE tag = "update" -> "Update"
      [] tag = "notification" -> "Notification"
      [] tag = "conversation" -> "Conversation"

\* C11: for a text frame with a well-formed envelope whose event is update,
\* notification or conversation, parse returns Update, Notification or
\* Conversation respectively when the entity decoder of that tag accepts the
\* payload, and an error when it rejects it; the variant follows the tag, also
\* for a payload that the decoders of other tags accept.
C11_VariantFollowsTag ==
    (LastReceivedIs(msg) /\ WellFormedEnvelope(msg)
       /\ msg.json.event.s \in {"update", "notification", "conversation"})
    => LET tag == msg.json.event.s
           payload == msg.json.payload.s
       IN  IF Accepts(tag, payload)
           THEN /\ res.ok
                /\ res.kind = VariantOf(tag)
                /\ Last(sunk).kind = VariantOf(tag)
           ELSE /\ ParseFailed(res)
                /\ sunk = Decoded(SubSeq(received, 1, Len(received) - 1))

C11_Witness ==
    /\ received = << Envelope("notification", StatusJson),
                     Envelope("conversation", EntityJson) >>
    /\ sunk = << [kind |-> "Conversation", data |-> EntityJson] >>

\* the url as the interface describes it: the base, "?", "stream=" and the
\* stream name, then "&access_token=" and the token if there is one, then "&"
\* and each extra parameter in the order given
RECURSIVE EachWithAmpersand(_)
EachWithAmpersand(extra) ==
    IF extra = <<>> THEN <<>>
    ELSE <<"&">> \o Head(extra) \o EachWithAmpersand(Tail(extra))

ExpectedUrl(ws) ==
    ws.url \o <<"?", "stream=">> \o ws.stream
    \o (IF ws.access_token.some
        THEN <<"&", "access_token=">> \o ws.access_token.v ELSE <<>>)
    \o (IF ws.params.some THEN EachWithAmpersand(ws.params.v) ELSE <<>>)

\* C12: the url every do_connect call is given is base + "?" + the "&"-join of
\* "stream=" + stream, then "access_token=" + token only if a token is present,
\* then each extra parameter verbatim in the order given; for base wss://x/api,
\* stream user and token tok it is wss://x/api?stream=user&access_token=tok, and
\* with the extra parameter foo=bar it ends in &foo=bar.
C12_UrlConstruction ==
    pc # "new"
    => /\ url = ExpectedUrl(self)
       /\ (self = WebSocket_new(<<"wss://x/api">>, <<"user">>, None, Some(<<"tok">>))
           => url = <<"wss://x/api", "?", "stream=", "user", "&",
                      "access_token=", "tok">>)
       /\ (self = WebSocket_new(<<"wss://x/api">>, <<"user">>,
                                Some(<< <<"foo=bar">> >>), Some(<<"tok">>))
           => url = <<"wss://x/api", "?", "stream=", "user", "&",
                      "access_token=", "tok", "&", "foo=bar">>)
       /\ (self = WebSocket_new(<<"wss://x/api">>, <<"public">>, Some(<<>>), None)
           => url = <<"wss://x/api", "?", "stream=", "public">>)

C12_Witness ==
    /\ pc = "reading"
    /\ attempts = 2
    /\ self.access_token = Some(<<"tok">>)
    /\ self.params = Some(<< <<"list=1">>, <<"foo=bar">> >>)
    /\ url = <<"wss://x/api", "?", "stream=", "user", "&", "access_token=", "tok",
               "&", "list=1", "&", "foo=bar">>

\* C13 as stated: at any time during a listen invocation exactly one session is
\* active, and a session is started only when no other is active.
C13_Original ==
    /\ [](pc \notin {"new", "returned"} => active = 1)
    /\ [][ attempts' # attempts => active = 0 ]_vars

\* C13 as amended: at any time at most one session is active, exactly one while
\* connect is inside do_connect (handshake or read loop) and none while connect
\* handles a result and sleeps; a do_connect call is made only when no session
\* is active and, after the first, only on a retryable result of the previous one.
C13_AtMostOneSession ==
    /\ [](active \in {0, 1})
    /\ []((pc \in {"connecting", "reading"}) <=> (active = 1))
    /\ [][ attempts' # attempts
           => /\ active = 0
              /\ active' = 1
              /\ attempts' = attempts + 1
              /\ (attempts > 0 => (pc = "ended" /\ outcome \in Retryable)) ]_vars

C13_Witness ==
    /\ pc = "reading"
    /\ attempts = 3
    /\ active = 1
    /\ Len(received) = 2

\* C14: a close frame without a status code makes do_connect return Ok
\* (CleanStop): connect returns and makes no further do_connect call.
C14_CloseWithoutCodeStops ==
    LastReceivedIs(Close(NoCode))
    => /\ pc \in {"ended", "returned"}
       /\ outcome = CleanStop
       /\ active = 0
       /\ closes >= 1

C14_Witness ==
    /\ pc = "returned"
    /\ attempts = 2
    /\ LastReceivedIs(Close(NoCode))

Heartbeat == [kind |-> "Heartbeat", data |-> ""]

RECURSIVE Count(_, _)
Count(frames, type) ==
    IF frames = <<>> THEN 0
    ELSE (IF Head(frames).type = type THEN 1 ELSE 0) + Count(Tail(frames), type)

\* C15: for every ping frame read, one pong send is attempted (never a second,
\* and no close), and whether the send succeeded or failed a Heartbeat is passed
\* to the callback for that frame and the session stays in its read loop with no
\* result produced.
C15_PingAnsweredOnceThenHeartbeat ==
    /\ [][ (received' # received /\ is_ping(msg'))
           => /\ pongs' = pongs + 1
              /\ closes' = closes
              /\ lastSend' \in {"ok", "err"}
              /\ sunk' = Append(sunk, Heartbeat)
              /\ pc' = "reading"
              /\ outcome' = outcome
              /\ active' = active ]_vars
    /\ [](pongs = Count(received, "ping"))
    /\ []((pc = "reading" /\ waited < 60 /\ Len(received) < MaxFrames)
          => \A sent \in {"ok", "err"} :
               ENABLED (ReadMessage /\ is_ping(msg') /\ lastSend' = sent))

C15_Witness ==
    /\ received = << Ping(<<1, 2>>), Ping(<<>>) >>
    /\ lastSend = "err"
    /\ pongs = 2
    /\ sunk = << Heartbeat, Heartbeat >>
    /\ pc = "reading"
    /\ attempts = 1

\* C16: for every close frame read, the close acknowledgement is attempted once,
\* and the result of do_connect is Ok when the frame has no code or code 1000
\* and UnusualSocketCloseError otherwise, whether the acknowledgement succeeded
\* or failed.
C16_CloseAckBestEffort ==
    /\ [][ (received' # received /\ is_close(msg'))
           => /\ closes' = closes + 1
              /\ pongs' = pongs
              /\ lastSend' \in {"ok", "err"}
              /\ sunk' = sunk
              /\ pc' = "ended"
              /\ outcome' = IF msg'.close.some /\ msg'.close.code # 1000
                            THEN "UnusualSocketCloseError" ELSE CleanStop ]_vars
    /\ [](closes = Count(received, "close"))
    /\ []((pc = "reading" /\ waited < 60 /\ Len(received) < MaxFrames)
          => \A sent \in {"ok", "err"} : \A m \in CloseFrames :
               ENABLED (ReadMessage /\ msg' = m /\ lastSend' = sent))

C16_Witness ==
    /\ received = << Close(Code(1011)), Close(Code(1000)) >>
    /\ closes = 2
    /\ lastSend = "err"
    /\ outcome = CleanStop
    /\ pc = "ended"

\* C17: a handshake failure ends the session at once with ConnectionError, with
\* no frame read and no callback call in that session; a read error in the read
\* loop ends the session at once with SocketReadError, and nothing more is read
\* or passed to the callback until connect starts the next session.
C17_TransportFailuresEndSession ==
    /\ [][ (read' = "connect_err" /\ read # "connect_err")
           => /\ pc = "connecting" /\ pc' = "ended"
              /\ outcome' = "ConnectionError"
              /\ active' = 0
              /\ received' = received /\ sunk' = sunk ]_vars
    /\ [][ (read' = "read_err" /\ read # "read_err")
           => /\ pc = "reading" /\ pc' = "ended"
              /\ outcome' = "SocketReadError"
              /\ active' = 0
              /\ received' = received /\ sunk' = sunk ]_vars
    /\ [][ (pc = "connecting" \/ pc = "ended")
           => (received' = received /\ sunk' = sunk) ]_vars
    /\ [](read = "connect_err" => (pc = "ended" /\ outcome = "ConnectionError"))
    /\ [](read = "read_err" => (pc = "ended" /\ outcome = "SocketReadError"))
    /\ [](pc = "connecting" => ENABLED HandshakeFail)
    /\ []((pc = "reading" /\ waited < 60) => ENABLED ReadError)

C17_Witness ==
    /\ pc = "ended"
    /\ read = "read_err"
    /\ outcome = "SocketReadError"
    /\ attempts = 2
    /\ received = << Envelope("delete", "123") >>
    /\ Len(sunk) = 1

\* C18: an empty read changes none of the callback calls, the sends, the
\* received frames, the results and the session count: the session stays in its
\* read loop with a fresh read pending, which can again yield anything.
C18_EmptyReadOnlyLogs ==
    /\ [][ (read' = "empty" /\ read # "empty")
           => /\ pc = "reading" /\ pc' = "reading"
              /\ UNCHANGED <<sunk, pongs, closes, lastSend, outcome, received,
                             msg, res, attempts, sleeps, active, url>> ]_vars
    /\ [](read = "empty" => (pc = "reading" /\ waited = 0 /\ active = 1))
    /\ [](read = "empty"
          => /\ ENABLED Tick
             /\ ENABLED ReadError
             /\ (Len(received) < MaxFrames => ENABLED ReadMessage))

C18_Witness ==
    /\ read = "empty"
    /\ pc = "reading"
    /\ idle > 0
    /\ received = << Ping(<<>>) >>
    /\ sunk = << Heartbeat >>
    /\ pongs = 1
    /\ closes = 0

EventKinds == {"Heartbeat", "Update", "Notification", "Conversation", "Delete"}

\* C19: the callback is called only in the step that reads a frame other than a
\* close frame, with the Message parse returned for it; a handshake failure, a
\* timeout, a read error or a close frame causes no callback call, a close frame
\* is not passed to parse, and no callback argument is an error.
C19_SinkOnlyGetsDecodedEvents ==
    /\ [][ sunk' # sunk
           => /\ read' = "message"
              /\ received' = Append(received, msg')
              /\ ~is_close(msg')
              /\ res'.ok
              /\ sunk' = Append(sunk, [kind |-> res'.kind, data |-> res'.data]) ]_vars
    /\ [][ (\/ (read' \in {"connect_err", "elapsed", "read_err"} /\ read' # read)
            \/ (received' # received /\ is_close(msg')))
           => sunk' = sunk ]_vars
    /\ []((LastReceivedIs(msg) /\ is_close(msg)) => res = NoResult)
    /\ [](\A i \in 1..Len(sunk) : sunk[i].kind \in EventKinds)

C19_Witness ==
    /\ pc = "ended"
    /\ outcome = "TimeoutError"
    /\ attempts = 3
    /\ received = << Pong(<<7>>), Close(Code(1011)) >>
    /\ sunk = << Heartbeat >>

\* C20: every completed read that leaves the session in its loop (a frame, parsed
\* or not, or an empty read) restarts the 60 second window, and the session
\* ends with TimeoutError only when the pending read alone has waited 60
\* seconds, however long the session has gone without a frame.
C20_TimeoutIsPerRead ==
    /\ [][ (\/ (received' # received /\ pc' = "reading")
            \/ (read' = "empty" /\ read # "empty"))
           => waited' = 0 ]_vars
    /\ [][ (read' = "elapsed" /\ read # "elapsed")
           => (waited >= 60 /\ pc' = "ended" /\ outcome' = "TimeoutError") ]_vars
    /\ [](outcome = "TimeoutError" => (waited >= 60 /\ read = "elapsed"))
    /\ []((pc = "reading" /\ waited < 60) => ~ENABLED ReadTimeout)
    /\ [](waited <= idle \/ pc # "reading")

C20_Witness ==
    /\ pc = "reading"
    /\ idle >= 60
    /\ waited = 30
    /\ Len(received) = 1
    /\ attempts = 1

====
